---- MODULE Spec2Model ----
(***************************************************************************)
(* Model of src/app_state.rs: AppState, the progress state machine of the  *)
(* exercise runner.  The registry of exercises is fixed at construction;   *)
(* the machine keeps a cursor (current_exercise_ind), the done flags, the  *)
(* incremental counter n_done and a write-through state file on disk.      *)
(*                                                                         *)
(* Indices are 0-based as in the source.  The state file is a sequence of  *)
(* bytes; exercise names are byte strings without the newline byte (they   *)
(* are single-line identifiers of the info file), and the registry is      *)
(* never empty (current_exercise() indexes it unconditionally).            *)
(***************************************************************************)
EXTENDS Integers, Sequences, FiniteSets, TLC

\* ------------------------------------------------------------------ bounds

\* Largest number of exercises in a registry.
MaxEx == 2

\* Longest arbitrary state file found on disk at the first construction.
MaxFileLen == 1

\* ------------------------------------------------------- program constants

\* b'\n', the line separator of the state file.
NL == 10

\* Width of n_done (u16).
U16 == 65536

\* Option::None of position and next_pending_exercise_ind.
None == -1

\* ------------------------------------------------------------ input domains

\* Exercise names: "a" and "ab" (one a prefix of the other); a registry may
\* repeat a name.
Names == {<<97>>, <<97, 98>>}

\* A name no exercise bears.
UnknownName == <<98>>

\* Bytes an arbitrary state file is made of: a, b and the newline.
FileAlphabet == {97, 98, NL}

RECURSIVE BytesUpTo(_)
BytesUpTo(n) ==
    IF n = 0 THEN {<<>>}
    ELSE LET S == BytesUpTo(n - 1)
         IN  S \cup {Append(s, c) : s \in {t \in S : Len(t) = n - 1}, c \in FileAlphabet}

\* Registries: every non-empty list of at most MaxEx names.
Registries == UNION {[0 .. (n - 1) -> Names] : n \in 1 .. MaxEx}

\* A state file on disk: absent, or present with its bytes.
NoFile == [exists |-> FALSE, bytes |-> <<>>]

FileOf(bytes) == [exists |-> TRUE, bytes |-> bytes]

\* State files left behind by other exercise sets or edited by hand: unknown
\* names on line 1 and among the done names with a name listed twice; a
\* non-empty line 2 and a name after an empty line; a single line with its newline.
StaleFiles ==
    { FileOf(<<98, NL, NL, 98, NL, 97, NL, 97, NL>>),
      FileOf(<<97, 98, NL, 97, NL, 97, 98, NL, NL, 97>>),
      FileOf(<<97, 98, NL>>) }

InitialFiles == {NoFile} \cup {FileOf(b) : b \in BytesUpTo(MaxFileLen)} \cup StaleFiles

\* Outcomes of Exercise::run as the verification pass sees them: the run's exit
\* status is success or not, or the run itself returns an error.
RunOutcomes == {"success", "failure", "error"}

VARIABLES
    names,                  \* exercises[i].name
    done,                   \* exercises[i].done
    current_exercise_ind,   \* the cursor
    n_done,                 \* the incremental done counter (u16)
    file,                   \* the state file on disk
    pc,                     \* "idle", or "verify" inside the verification pass
    exercise_ind,           \* loop variable of the verification pass
    op,                     \* the operation called last
    arg,                    \* its argument (for done_current_exercise: the cursor at the call)
                            \* (for new: whether the state file was opened and read)
    result,                 \* what it returned ("none" while it is running): Ok, Pending,
                            \* AllDone, or the error: BadIndex, NoExercise, WriteFailed,
                            \* TerminalFailed, RunError
    wrote,                  \* AppState::write in that operation: "none", "ok", "failed"
    runs                    \* exercises run by that operation, in order, with outcomes

vars == <<names, done, current_exercise_ind, n_done, file, pc, exercise_ind,
          op, arg, result, wrote, runs>>

\* exercises.len()
Len_ == Cardinality(DOMAIN names)

Indices == DOMAIN names

\* ----------------------------------------------------------- pure functions

\* n_done += 1 and n_done -= 1 on a u16.
Inc(n) == (n + 1) % U16

\* Dec with the decrement forgotten.
DecForgotten(n) == n

Dec(n) == (n - 1) % U16

\* exercise.done read as true whatever the flag.
ExerciseDoneAlways(d, ind) == TRUE

\* if exercise.done, the test of set_pending on the exercise at ind.
ExerciseDone(d, ind) == d[ind]

\* exercise.done = true set on the first exercise instead of the current one.
MarkDoneFirst(d, cur) == [d EXCEPT ![0] = TRUE]

\* exercise.done = true with the assignment left out.
MarkDoneForgotten(d, cur) == d

\* exercise.done = true, on the current exercise.
MarkDone(d, cur) == [d EXCEPT ![cur] = TRUE]

\* exercise.done = false with the assignment left out.
SetPendingFlagForgotten(d, ind) == d

\* exercise.done = false reaching every exercise.
SetPendingFlagAll(d, ind) == [i \in DOMAIN d |-> FALSE]

\* exercise.done = false, on the exercise at ind.
SetPendingFlag(d, ind) == [d EXCEPT ![ind] = FALSE]

\* The pieces of s from position i on, piece being the bytes of the current
\* piece read so far.
RECURSIVE SplitFrom(_, _, _)
SplitFrom(s, i, piece) ==
    IF i > Len(s)
    THEN <<piece>>
    ELSE IF s[i] = NL
         THEN <<piece>> \o SplitFrom(s, i + 1, <<>>)
         ELSE SplitFrom(s, i + 1, Append(piece, s[i]))

\* slice::split(|c| *c == b'\n'): the pieces between newlines; always at least one.
Split(s) == SplitFrom(s, 1, <<>>)

\* lines.next().is_none() never true: a single line taken as well-formed.
SecondLineNeverAbsent(lines) == FALSE

\* lines.next().is_none() for the second line: the file has fewer than two lines.
SecondLineAbsent(lines) == Len(lines) < 2

\* DoneExercises without the break at the empty line.
RECURSIVE DoneExercisesNoBreak(_, _)
DoneExercisesNoBreak(lines, k) ==
    IF k > Len(lines)
    THEN {}
    ELSE {lines[k]} \cup DoneExercisesNoBreak(lines, k + 1)

\* The loop filling done_exercises: the lines from position k up to the first
\* empty one.
RECURSIVE DoneExercises(_, _)
DoneExercises(lines, k) ==
    IF k > Len(lines) \/ lines[k] = <<>>
    THEN {}
    ELSE {lines[k]} \cup DoneExercises(lines, k + 1)

\* CursorAfter taking the position after the matching exercise.
CursorAfterOffByOne(nm, ind, current_exercise_name, cur) ==
    IF nm[ind] = current_exercise_name THEN ind + 1 ELSE cur

\* The cursor after the registry loop of update_from_file has visited exercise ind.
CursorAfter(nm, ind, current_exercise_name, cur) ==
    IF nm[ind] = current_exercise_name THEN ind ELSE cur

\* The loop over the registry in update_from_file, from index ind on.
RECURSIVE ScanRegistry(_, _, _, _, _)
ScanRegistry(nm, st, done_exercises, current_exercise_name, ind) ==
    IF ind \notin DOMAIN nm
    THEN st
    ELSE LET hit == nm[ind] \in done_exercises
             st1 == [done |-> IF hit THEN [st.done EXCEPT ![ind] = TRUE] ELSE st.done,
                     n_done |-> IF hit THEN Inc(st.n_done) ELSE st.n_done,
                     cur |-> CursorAfter(nm, ind, current_exercise_name, st.cur)]
         IN  ScanRegistry(nm, st1, done_exercises, current_exercise_name, ind + 1)

\* update_from_file on a machine in state st (done, n_done, cur) over registry nm;
\* readable is whether open and read_to_end succeed.
UpdateFromFile(nm, st, f, readable) ==
    LET st0 == [st EXCEPT !.n_done = 0]
    IN  IF ~(f.exists /\ readable)
        THEN st0
        ELSE LET lines == Split(f.bytes)
             IN  IF SecondLineAbsent(lines)
                 THEN st0
                 ELSE ScanRegistry(nm, st0, DoneExercises(lines, 3), lines[1], 0)

\* AppState::new: the defaults, then update_from_file.
New(nm, f, readable) ==
    UpdateFromFile(nm,
                   [done |-> [i \in DOMAIN nm |-> FALSE], n_done |-> 0, cur |-> 0],
                   f, readable)

\* PositionByName falling back to the first exercise when none bears the name.
PositionByNameOrFirst(nm, name) ==
    IF \E i \in DOMAIN nm : nm[i] = name
    THEN CHOOSE i \in DOMAIN nm : nm[i] = name /\ \A j \in 0 .. (i - 1) : nm[j] # name
    ELSE 0

\* iter().position(|exercise| exercise.name == name)
PositionByName(nm, name) ==
    IF \E i \in DOMAIN nm : nm[i] = name
    THEN CHOOSE i \in DOMAIN nm : nm[i] = name /\ \A j \in 0 .. (i - 1) : nm[j] # name
    ELSE None

\* Position finding the last pending exercise of the slice instead of the first.
PositionLast(d, lo, hi) ==
    IF \E i \in lo .. (hi - 1) : ~d[i]
    THEN (CHOOSE i \in lo .. (hi - 1) : ~d[i] /\ \A j \in (i + 1) .. (hi - 1) : d[j]) - lo
    ELSE None

\* iter().position(|exercise| !exercise.done) over the slice d[lo .. hi): the
\* offset of the first pending exercise in the slice, or None.
Position(d, lo, hi) ==
    IF \E i \in lo .. (hi - 1) : ~d[i]
    THEN (CHOOSE i \in lo .. (hi - 1) : ~d[i] /\ \A j \in lo .. (i - 1) : d[j]) - lo
    ELSE None

\* next_pending_exercise_ind taking the exercise after the cursor, done or not.
NextPendingIgnoringDone(d, cur) ==
    LET len == Cardinality(DOMAIN d)
    IN  IF len = 1 THEN None ELSE (cur + 1) % len

\* next_pending_exercise_ind searching only after the cursor, never from the start.
NextPendingNoWrap(d, cur) ==
    LET len == Cardinality(DOMAIN d)
        ind == Position(d, cur + 1, len)
    IN  IF ind # None THEN cur + 1 + ind ELSE None

\* next_pending_exercise_ind.
NextPendingExerciseInd(d, cur) ==
    LET len == Cardinality(DOMAIN d)
    IN  IF cur = len - 1
        THEN Position(d, 0, cur)
        ELSE LET ind == Position(d, cur + 1, len)
             IN  IF ind # None THEN cur + 1 + ind ELSE Position(d, 0, cur)

\* The done-name lines write appends, for the exercises from index ind on.
RECURSIVE DoneLines(_, _, _)
DoneLines(nm, d, ind) ==
    IF ind \notin DOMAIN nm
    THEN <<>>
    ELSE (IF d[ind] THEN nm[ind] \o <<NL>> ELSE <<>>) \o DoneLines(nm, d, ind + 1)

\* FileBuf with a single newline after the current exercise's name.
FileBufOneNewline(nm, cur, d) == nm[cur] \o <<NL>> \o DoneLines(nm, d, 0)

\* The buffer write builds.
FileBuf(nm, cur, d) == nm[cur] \o <<NL, NL>> \o DoneLines(nm, d, 0)

\* The proper prefixes of a buffer: what a write cut short leaves on disk.
Prefixes(buf) == {SubSeq(buf, 1, k) : k \in 0 .. (Len(buf) - 1)}

\* fs::write of buf over file f: on success the file holds buf; on failure it
\* is untouched (the open failed) or holds a proper prefix of buf.
FsWrite(f, buf, ok) ==
    IF ok THEN {FileOf(buf)} ELSE {f} \cup {FileOf(p) : p \in Prefixes(buf)}

\* ------------------------------------------------------------------ actions

Init ==
    /\ names \in Registries
    /\ file \in InitialFiles
    /\ \E readable \in BOOLEAN :
         LET st == New(names, file, readable)
         IN  /\ done = st.done
             /\ n_done = st.n_done
             /\ current_exercise_ind = st.cur
             /\ arg = (file.exists /\ readable)
    /\ pc = "idle"
    /\ exercise_ind = 0
    /\ op = "new"
    /\ result = "none"
    /\ wrote = "none"
    /\ runs = <<>>

\* Write with the call to fs::write left out.
WriteSkipped(cur, d, res_ok) ==
    /\ file' = file
    /\ wrote' = "none"
    /\ result' = res_ok

\* Write with the error of fs::write dropped instead of returned.
WriteSwallowsFailure(cur, d, res_ok) ==
    \E ok \in BOOLEAN :
        /\ file' \in FsWrite(file, FileBuf(names, cur, d), ok)
        /\ wrote' = IF ok THEN "ok" ELSE "failed"
        /\ result' = res_ok

\* AppState::write as the last thing an operation does, with cursor cur and
\* flags d in memory: the operation returns res_ok when the write succeeds and
\* the write's error otherwise.
Write(cur, d, res_ok) ==
    \E ok \in BOOLEAN :
        /\ file' \in FsWrite(file, FileBuf(names, cur, d), ok)
        /\ wrote' = IF ok THEN "ok" ELSE "failed"
        /\ result' = IF ok THEN res_ok ELSE "WriteFailed"

\* The process exits and a later one constructs the machine again over the same
\* registry and whatever state file is on disk.
Restart ==
    /\ \E readable \in BOOLEAN :
         LET st == New(names, file, readable)
         IN  /\ done' = st.done
             /\ n_done' = st.n_done
             /\ current_exercise_ind' = st.cur
             /\ arg' = (file.exists /\ readable)
    /\ pc' = "idle"
    /\ exercise_ind' = 0
    /\ op' = "new"
    /\ result' = "none"
    /\ wrote' = "none"
    /\ runs' = <<>>
    /\ UNCHANGED <<names, file>>

\* set_current_exercise_ind(ind).
SetCurrentExerciseInd(ind) ==
    /\ pc = "idle"
    /\ op' = "set_current_exercise_ind"
    /\ arg' = ind
    /\ IF ind >= Len_
       THEN /\ result' = "BadIndex"
            /\ wrote' = "none"
            /\ UNCHANGED <<current_exercise_ind, file>>
       ELSE /\ current_exercise_ind' = ind
            /\ Write(ind, done, "Ok")
    /\ runs' = <<>>
    /\ UNCHANGED <<names, done, n_done, pc, exercise_ind>>

\* set_current_exercise_by_name(name).
SetCurrentExerciseByName(name) ==
    /\ pc = "idle"
    /\ op' = "set_current_exercise_by_name"
    /\ arg' = name
    /\ LET ind == PositionByName(names, name)
       IN  IF ind = None
           THEN /\ result' = "NoExercise"
                /\ wrote' = "none"
                /\ UNCHANGED <<current_exercise_ind, file>>
           ELSE /\ current_exercise_ind' = ind
                /\ Write(ind, done, "Ok")
    /\ runs' = <<>>
    /\ UNCHANGED <<names, done, n_done, pc, exercise_ind>>

\* set_pending(ind).
SetPending(ind) ==
    /\ pc = "idle"
    /\ op' = "set_pending"
    /\ arg' = ind
    /\ IF ind \notin Indices
       THEN /\ result' = "BadIndex"
            /\ wrote' = "none"
            /\ UNCHANGED <<done, n_done, file>>
       ELSE IF ExerciseDone(done, ind)
            THEN /\ done' = SetPendingFlag(done, ind)
                 /\ n_done' = Dec(n_done)
                 /\ Write(current_exercise_ind, SetPendingFlag(done, ind), "Ok")
            ELSE /\ result' = "Ok"
                 /\ wrote' = "none"
                 /\ UNCHANGED <<done, n_done, file>>
    /\ runs' = <<>>
    /\ UNCHANGED <<names, current_exercise_ind, pc, exercise_ind>>

\* The verification loop starting at the second exercise.
PassStartSecond == 0 + 1

\* The start of the verification loop: enumerate() counts from the first exercise.
PassStart == 0

\* done_current_exercise up to the verification loop: mark the current exercise
\* done, then either advance to the next pending exercise and return, or print
\* the banner and enter the loop.
DoneCurrentExercise ==
    /\ pc = "idle"
    /\ op' = "done_current_exercise"
    /\ arg' = current_exercise_ind
    /\ runs' = <<>>
    /\ done' = MarkDone(done, current_exercise_ind)
    /\ n_done' = IF done[current_exercise_ind] THEN n_done ELSE Inc(n_done)
    /\ LET ind == NextPendingExerciseInd(done', current_exercise_ind)
       IN  IF ind # None
           THEN \* self.set_current_exercise_ind(ind)?
                /\ IF ind >= Len_
                   THEN /\ result' = "BadIndex"
                        /\ wrote' = "none"
                        /\ UNCHANGED <<current_exercise_ind, file>>
                   ELSE /\ current_exercise_ind' = ind
                        /\ Write(ind, done', "Pending")
                /\ UNCHANGED <<pc, exercise_ind>>
           ELSE \E banner_ok \in BOOLEAN :
                /\ pc' = IF banner_ok THEN "verify" ELSE "idle"
                /\ result' = IF banner_ok THEN "none" ELSE "TerminalFailed"
                /\ exercise_ind' = PassStart
                /\ wrote' = "none"
                /\ UNCHANGED <<current_exercise_ind, file>>
    /\ UNCHANGED names

\* The verification loop ending one exercise early.
PassEndShort == Len_ - 1

\* The end of the verification loop: it visits every exercise of the registry.
PassEnd == Len_

\* One iteration of the verification loop, on exercise exercise_ind: announce
\* it, run it, and either report ok and go on, or report the failure, make the
\* exercise current and pending, persist and return.  Each write to the terminal
\* and the run itself may return an error, which ends the operation at once.
VerifyExercise ==
    /\ pc = "verify"
    /\ exercise_ind < PassEnd
    /\ \E announce_ok \in BOOLEAN, outcome \in RunOutcomes, report_ok \in BOOLEAN :
         IF ~announce_ok
         THEN /\ result' = "TerminalFailed"
              /\ pc' = "idle"
              /\ UNCHANGED <<done, n_done, current_exercise_ind, file, wrote,
                             exercise_ind, runs>>
         ELSE /\ runs' = Append(runs, [ind |-> exercise_ind, outcome |-> outcome])
              /\ IF outcome = "error" \/ ~report_ok
                 THEN /\ result' = IF outcome = "error" THEN "RunError"
                                   ELSE "TerminalFailed"
                      /\ pc' = "idle"
                      /\ UNCHANGED <<done, n_done, current_exercise_ind, file,
                                     wrote, exercise_ind>>
                 ELSE IF outcome = "failure"
                      THEN /\ current_exercise_ind' = exercise_ind
                           /\ done' = SetPendingFlag(done, exercise_ind)
                           /\ n_done' = Dec(n_done)
                           /\ Write(exercise_ind, SetPendingFlag(done, exercise_ind),
                                    "Pending")
                           /\ pc' = "idle"
                           /\ UNCHANGED exercise_ind
                      ELSE /\ exercise_ind' = exercise_ind + 1
                           /\ UNCHANGED <<done, n_done, current_exercise_ind, file,
                                          pc, result, wrote>>
    /\ UNCHANGED <<names, op, arg>>

\* After the loop: clear the terminal, print the final message, return AllDone.
VerifyFinish ==
    /\ pc = "verify"
    /\ exercise_ind >= PassEnd
    /\ \E final_ok \in BOOLEAN :
         result' = IF final_ok THEN "AllDone" ELSE "TerminalFailed"
    /\ pc' = "idle"
    /\ UNCHANGED <<names, done, n_done, current_exercise_ind, file, exercise_ind,
                   op, arg, wrote, runs>>

Next ==
    \/ Restart
    \/ \E ind \in 0 .. Len_ : SetCurrentExerciseInd(ind)
    \/ \E name \in Names \cup {UnknownName} : SetCurrentExerciseByName(name)
    \/ \E ind \in 0 .. Len_ : SetPending(ind)
    \/ DoneCurrentExercise
    \/ VerifyExercise
    \/ VerifyFinish

\* Every behaviour of the machine.
Spec == Init /\ [][Next]_vars

\* The behaviours in which every write of the state file succeeds.
NextWritesOk == Next /\ wrote' # "failed"

SpecWritesOk == Init /\ [][NextWritesOk]_vars

\* A step of a caller that calls done_current_exercise and nothing else, with
\* every write (to the state file and to the terminal) and every run succeeding.
ProgressNext ==
    /\ DoneCurrentExercise \/ VerifyExercise \/ VerifyFinish
    /\ wrote' # "failed"
    /\ result' \in {"none", "Pending", "AllDone"}
    /\ \A j \in 1 .. Len(runs') : runs'[j].outcome = "success"

\* The behaviours in which every write of the state file succeeds and in which
\* such steps, whenever they remain possible, keep being taken: the caller
\* that keeps calling.  (done_current_exercise never reads the state file, so
\* the writes that failed earlier have no part in what these steps do.)
SpecProgress == Init /\ [][NextWritesOk]_vars /\ WF_vars(ProgressNext)

\* --------------------------------------------------------------- properties

\* An operation has returned.
Returned == pc = "idle" /\ result # "none"

\* The exercises whose done flag is true.
DoneSet == {i \in Indices : done[i]}

\* The lines after the second, the empty ones left out.
DoneNameLines(lines) == {lines[k] : k \in 3 .. Len(lines)} \ {<<>>}

\* The state file reflects cursor cur and flags d: its first line names the
\* current exercise and its done-name lines are exactly the done exercises' names.
FileReflects(f, cur, d) ==
    /\ f.exists
    /\ LET lines == Split(f.bytes)
       IN  /\ lines[1] = names[cur]
           /\ DoneNameLines(lines) = {names[i] : i \in {j \in Indices : d[j]}}

\* C1 (as claimed, its closing clause): with every write of the state file
\* succeeding, when done_current_exercise returns AllDone the state file
\* reflects the in-memory state: its first line names the current exercise and
\* its done-name lines are exactly the names of the done exercises.
C1_WriteThroughAtAllDone ==
    (Returned /\ op = "done_current_exercise" /\ result = "AllDone")
        => FileReflects(file, current_exercise_ind, done)

\* C2: n_done equals the number of exercises whose done flag is true, after
\* construction from any state file and after every operation, whether it
\* succeeded or returned an error.
C2_NDoneCountsDone == n_done = Cardinality(DoneSet)

\* C2's case: set_pending has flipped an exercise and returned the error of a
\* failed write while another exercise is still done.
C2_Witness ==
    /\ Returned
    /\ op = "set_pending"
    /\ result = "WriteFailed"
    /\ n_done >= 1

\* C3: the cursor is a valid index, 0 <= current_exercise_ind < len(exercises),
\* after construction and after every operation, succeeding or failing.
C3_CursorInRange == current_exercise_ind \in 0 .. (Len_ - 1)

\* C3's case: construction from a state file has moved the cursor to the last
\* exercise of a registry of several.
C3_Witness ==
    /\ op = "new"
    /\ file.exists
    /\ Len_ >= 2
    /\ current_exercise_ind = Len_ - 1

\* No two exercises of the registry bear the same name, and no name is empty.
UniqueNonEmptyNames ==
    /\ \A i, j \in Indices : names[i] = names[j] => i = j
    /\ \A i \in Indices : names[i] # <<>>

\* C4: over a registry of unique non-empty names, the file write produces from
\* the in-memory state, read by update_from_file in a freshly constructed
\* machine over the same registry, gives back the same cursor, the same done
\* flags and the same n_done.
C4_RoundTrip ==
    UniqueNonEmptyNames =>
        LET st == New(names, FileOf(FileBuf(names, current_exercise_ind, done)), TRUE)
        IN  /\ st.cur = current_exercise_ind
            /\ st.done = done
            /\ st.n_done = n_done

\* C4's case: a machine constructed from the file an earlier write left, with
\* the cursor off the first exercise, an exercise done and another pending.
C4_Witness ==
    /\ op = "new"
    /\ UniqueNonEmptyNames
    /\ file = FileOf(FileBuf(names, current_exercise_ind, done))
    /\ current_exercise_ind >= 1
    /\ n_done >= 1
    /\ n_done < Len_

\* Largest registry over which the circular scan is compared with its definition.
ScanLen == 4

\* The index the circular scan is to select from cursor c under flags d: the
\* smallest pending index above c, else the smallest pending index below c,
\* else None.
ScanExpected(d, c) ==
    LET n == Cardinality(DOMAIN d)
        above == {i \in (c + 1) .. (n - 1) : ~d[i]}
        below == {i \in 0 .. (c - 1) : ~d[i]}
        Min(S) == CHOOSE x \in S : \A y \in S : x <= y
    IN  IF above # {} THEN Min(above) ELSE IF below # {} THEN Min(below) ELSE None

\* The scan agrees with ScanExpected on every registry size up to ScanLen, every
\* cursor and every assignment of the flags; it never selects the cursor itself
\* nor a done exercise.
ScanCorrect ==
    \A n \in 1 .. ScanLen :
        \A d \in [0 .. (n - 1) -> BOOLEAN], c \in 0 .. (n - 1) :
            LET r == NextPendingExerciseInd(d, c)
            IN  /\ r = ScanExpected(d, c)
                /\ r # c
                /\ r # None => (r \in 0 .. (n - 1) /\ ~d[r])

\* [A done, B pending, C done, D pending]
ExampleFlags == (0 :> TRUE) @@ (1 :> FALSE) @@ (2 :> TRUE) @@ (3 :> FALSE)

\* C5: for every registry, cursor c and assignment of done flags,
\* next_pending_exercise_ind returns the smallest pending index above c if there
\* is one, otherwise the smallest pending index below c if there is one,
\* otherwise none; never c, never a done exercise.  With [A done, B pending,
\* C done, D pending] it selects 3 from cursor 2 and, D being done as well, 1
\* from cursor 3.  An advancing done_current_exercise moves the cursor there.
C5_CircularScan ==
    /\ ScanCorrect
    /\ NextPendingExerciseInd(ExampleFlags, 2) = 3
    /\ NextPendingExerciseInd([ExampleFlags EXCEPT ![3] = TRUE], 3) = 1
    /\ (Returned /\ op = "done_current_exercise" /\ runs = <<>> /\ wrote = "ok")
           => current_exercise_ind = ScanExpected(done, arg)

\* C5's case: done_current_exercise called on the last exercise has wrapped
\* round to a pending exercise before it.
C5_Witness ==
    /\ Returned
    /\ op = "done_current_exercise"
    /\ result = "Pending"
    /\ runs = <<>>
    /\ arg = Len_ - 1
    /\ current_exercise_ind < arg

\* The last run of the operation.
LastRun == runs[Len(runs)]

\* The verification pass ran into a failing exercise: its last run failed (the
\* runs before it succeeded, or the pass would have ended there).
RegressionFound ==
    /\ Returned
    /\ op = "done_current_exercise"
    /\ runs # <<>>
    /\ LastRun.outcome = "failure"

\* The state after a regression on exercise k: k pending and current, every
\* other exercise done, and the state file written accordingly.
RegressedTo(k) ==
    /\ ~done[k]
    /\ \A i \in Indices \ {k} : done[i]
    /\ n_done = Len_ - 1
    /\ current_exercise_ind = k
    /\ wrote = "ok"
    /\ FileReflects(file, k, [i \in Indices |-> i # k])

AllRunsSucceeded ==
    /\ Len(runs) = Len_
    /\ \A j \in 1 .. Len(runs) : runs[j] = [ind |-> j - 1, outcome |-> "success"]

\* No exercise is pending.
NonePending == \A i \in Indices : done[i]

\* What holds when done_current_exercise returns AllDone, the cursor being
\* where it was at the call.
AllDoneState ==
    /\ NonePending
    /\ n_done = Len_
    /\ current_exercise_ind = arg

\* A step of a verification pass that finds no failing exercise changes neither
\* the cursor, nor a done flag, nor n_done.
PassChangesNothing ==
    (pc = "verify" /\ op' = "done_current_exercise" /\ result' \in {"none", "AllDone"})
        => UNCHANGED <<current_exercise_ind, done, n_done>>

\* C7 (as claimed): done_current_exercise returns AllDone if and only if, the
\* current exercise marked done, no exercise is pending and every exercise's run
\* in the verification pass succeeds.
C7_AllDoneIffAsClaimed ==
    (Returned /\ op = "done_current_exercise")
        => (result = "AllDone" <=> (NonePending /\ AllRunsSucceeded))

\* C7 (amended): done_current_exercise returns AllDone if and only if no exercise
\* is pending once the current one is marked done, every exercise's run in the
\* verification pass succeeds and no write to the terminal fails; then every
\* flag is true, n_done = len, and the pass has changed neither the cursor, nor
\* a flag, nor n_done.
C7_AllDone ==
    /\ [](     (Returned /\ op = "done_current_exercise")
            => /\ result = "AllDone"
                    <=> (NonePending /\ AllRunsSucceeded /\ result # "TerminalFailed")
               /\ result = "AllDone" => AllDoneState)
    /\ [][PassChangesNothing]_vars

\* C7's case: a pass over a registry of several exercises has returned AllDone.
C7_Witness ==
    /\ Returned
    /\ op = "done_current_exercise"
    /\ result = "AllDone"
    /\ Len_ >= 2

\* A call of done_current_exercise that leaves an exercise pending once the
\* current one is marked done.
AdvancingCall ==
    /\ pc = "idle"
    /\ op' = "done_current_exercise"
    /\ \E i \in Indices \ {current_exercise_ind} : ~done[i]

\* The call runs no exercise, moves the cursor to the scan's choice and issues
\* the write.
Advanced ==
    /\ runs' = <<>>
    /\ pc' = "idle"
    /\ current_exercise_ind' = ScanExpected(done', current_exercise_ind)
    /\ wrote' # "none"
    /\ wrote' = "ok" => FileReflects(file', current_exercise_ind', done')

\* The verification pass is under way only while no exercise is pending.
VerifyOnlyWhenNonePending == pc = "verify" => NonePending

\* C8 (as claimed): when an exercise is still pending after the current one is
\* marked done, done_current_exercise runs no exercise, sets the cursor to the
\* scan's choice, persists and returns Pending; the verification pass is entered
\* only when no exercise is pending.
C8_AdvanceAsClaimed ==
    /\ [][AdvancingCall => (Advanced /\ result' = "Pending")]_vars
    /\ []VerifyOnlyWhenNonePending

\* C8 (amended): the same, the call returning Pending when the write of the
\* state file succeeds and the write's error when it fails.
C8_Advance ==
    /\ [][AdvancingCall =>
            /\ Advanced
            /\ result' = IF wrote' = "ok" THEN "Pending" ELSE "WriteFailed"]_vars
    /\ []VerifyOnlyWhenNonePending

\* C8's case: done_current_exercise has moved the cursor on and persisted.
C8_Witness ==
    /\ Returned
    /\ op = "done_current_exercise"
    /\ result = "Pending"
    /\ runs = <<>>
    /\ wrote = "ok"
    /\ current_exercise_ind # arg
    /\ FileReflects(file, current_exercise_ind, done)

\* Nothing of the machine's state nor the state file changes.
NothingMutated == UNCHANGED <<current_exercise_ind, done, n_done, file>>

\* C9: set_current_exercise_ind(ind) and set_pending(ind) with ind >= len, and
\* set_current_exercise_by_name(name) with a name no exercise bears, each return
\* an error and leave the cursor, every done flag, n_done and the state file
\* unchanged.
C9_FailedSelections ==
    [][ /\ (op' = "set_current_exercise_ind" /\ arg' >= Len_)
            => (result' = "BadIndex" /\ NothingMutated)
        /\ (op' = "set_pending" /\ arg' >= Len_)
            => (result' = "BadIndex" /\ NothingMutated)
        /\ (op' = "set_current_exercise_by_name" /\ \A i \in Indices : names[i] # arg')
            => (result' = "NoExercise" /\ NothingMutated) ]_vars

\* C9's case: a selection by an unknown name has failed on a machine with an
\* exercise done and a state file on disk.
C9_Witness ==
    /\ Returned
    /\ op = "set_current_exercise_by_name"
    /\ result = "NoExercise"
    /\ n_done >= 1
    /\ file.exists

\* The selection leaves the flags and the counter alone and writes the state
\* file: write is called, and when it succeeds the file holds the new state.
SelectedAndWritten ==
    /\ done' = done
    /\ n_done' = n_done
    /\ wrote' # "none"
    /\ wrote' = "ok" =>
           (result' = "Ok" /\ FileReflects(file', current_exercise_ind', done'))

\* C10: for every valid index i, set_current_exercise_ind(i) leaves the cursor
\* equal to i, and for every name an exercise bears
\* set_current_exercise_by_name(name) leaves the cursor at an exercise of that
\* name; both leave every done flag and n_done unchanged and write the state file.
C10_SuccessfulSelection ==
    [][ /\ (op' = "set_current_exercise_ind" /\ arg' < Len_)
            => (current_exercise_ind' = arg' /\ SelectedAndWritten)
        /\ (op' = "set_current_exercise_by_name" /\ \E i \in Indices : names[i] = arg')
            => (names[current_exercise_ind'] = arg' /\ SelectedAndWritten) ]_vars

\* C10's case: a selection by name has moved the cursor off the first exercise
\* of a machine with an exercise done, and returned Ok.
C10_Witness ==
    /\ Returned
    /\ op = "set_current_exercise_by_name"
    /\ result = "Ok"
    /\ names[current_exercise_ind] = arg
    /\ current_exercise_ind >= 1
    /\ n_done >= 1

\* C11: set_pending on a valid index whose exercise is already pending is a
\* no-op: it returns success, changes no done flag, leaves n_done and the cursor
\* unchanged and performs no write of the state file.
C11_SetPendingNoOp ==
    [][ (op' = "set_pending" /\ arg' \in Indices /\ ~done[arg'])
            => (result' = "Ok" /\ wrote' = "none" /\ NothingMutated) ]_vars

\* C11's case: set_pending has returned success without a write on a pending
\* exercise, another exercise being done and a state file being on disk.
C11_Witness ==
    /\ Returned
    /\ op = "set_pending"
    /\ result = "Ok"
    /\ wrote = "none"
    /\ arg \in Indices
    /\ ~done[arg]
    /\ n_done >= 1
    /\ file.exists

\* C12: set_pending(ind) on an exercise that is done flips exactly that exercise
\* to pending, decrements n_done by exactly 1, leaves the cursor and every other
\* exercise's done flag unchanged, and writes the state file: write is called,
\* and when it succeeds the file holds the new state.
C12_SetPendingFlips ==
    [][ (op' = "set_pending" /\ arg' \in Indices /\ done[arg'])
            => /\ ~done'[arg']
               /\ \A i \in Indices \ {arg'} : done'[i] = done[i]
               /\ n_done' = n_done - 1
               /\ current_exercise_ind' = current_exercise_ind
               /\ wrote' # "none"
               /\ wrote' = "ok" =>
                      FileReflects(file', current_exercise_ind', done') ]_vars

\* C12's case: set_pending has flipped one exercise of two that were done and
\* persisted the new state.
C12_Witness ==
    /\ Returned
    /\ op = "set_pending"
    /\ result = "Ok"
    /\ wrote = "ok"
    /\ ~done[arg]
    /\ n_done >= 1
    /\ FileReflects(file, current_exercise_ind, done)

\* The positions of the newline bytes of s.
Newlines(s) == {i \in 1 .. Len(s) : s[i] = NL}

\* The state of a machine left at its defaults.
Defaults ==
    /\ current_exercise_ind = 0
    /\ \A i \in Indices : ~done[i]
    /\ n_done = 0

\* The machine has just been constructed and has read the state file.
ConstructedFromFile == op = "new" /\ arg = TRUE

\* The last exercise bearing the name, the one the registry loop leaves the
\* cursor on; 0, the default, when no exercise bears it.
LastNamed(name) ==
    LET S == {i \in Indices : names[i] = name}
    IN  IF S = {} THEN 0 ELSE CHOOSE i \in S : \A j \in S : j <= i

\* C13 (as claimed): a machine constructed from a state file that holds no
\* line or one line (an empty file, or a single line of text whether or not a
\* newline ends it) is at its defaults: cursor 0, no exercise done, n_done = 0.
C13_MalformedAsClaimed ==
    (ConstructedFromFile /\ Newlines(file.bytes) \subseteq {Len(file.bytes)})
        => Defaults

\* C13 (amended): a machine constructed from an empty file or from a single
\* line of text that no newline ends is at its defaults; constructed from a
\* single line ended by a newline, which update_from_file reads as two lines,
\* it has no exercise done and n_done = 0, and its cursor is on the exercise
\* that line names, or 0 if no exercise bears the name.
C13_Malformed ==
    ConstructedFromFile =>
        /\ Newlines(file.bytes) = {} => Defaults
        /\ (file.bytes # <<>> /\ Newlines(file.bytes) = {Len(file.bytes)}) =>
               /\ \A i \in Indices : ~done[i]
               /\ n_done = 0
               /\ current_exercise_ind =
                      LastNamed(SubSeq(file.bytes, 1, Len(file.bytes) - 1))

\* C13's case: a write cut short has left the single line "ab" with no newline,
\* the name of the second exercise, and the machine constructed from it is at
\* its defaults.
C13_Witness ==
    /\ ConstructedFromFile
    /\ file.bytes = <<97, 98>>
    /\ Len_ >= 2
    /\ names[1] = <<97, 98>>
    /\ Defaults

\* The step is an operation whose write of the state file fails.
WriteFails == wrote' = "failed"

\* The in-memory state after the step is the one the operation's mutation
\* gives: the selections move the cursor; set_pending flips its exercise and
\* decrements n_done; done_current_exercise marks the current exercise done and
\* moves the cursor to the scan's choice; the verification pass makes the
\* failing exercise current and pending and decrements n_done.
MutationKept ==
    /\ op' = "set_current_exercise_ind" =>
           /\ current_exercise_ind' = arg'
           /\ done' = done
           /\ n_done' = n_done
    /\ op' = "set_current_exercise_by_name" =>
           /\ names[current_exercise_ind'] = arg'
           /\ done' = done
           /\ n_done' = n_done
    /\ op' = "set_pending" =>
           /\ done[arg']
           /\ done' = [done EXCEPT ![arg'] = FALSE]
           /\ n_done' = n_done - 1
           /\ current_exercise_ind' = current_exercise_ind
    /\ (op' = "done_current_exercise" /\ pc = "idle") =>
           /\ done' = [done EXCEPT ![current_exercise_ind] = TRUE]
           /\ n_done' = Cardinality({i \in Indices : done'[i]})
           /\ current_exercise_ind' = ScanExpected(done', current_exercise_ind)
    /\ (op' = "done_current_exercise" /\ pc = "verify") =>
           /\ done' = [done EXCEPT ![exercise_ind] = FALSE]
           /\ n_done' = n_done - 1
           /\ current_exercise_ind' = exercise_ind

\* p is a proper prefix of b.
IsProperPrefix(p, b) == Len(p) < Len(b) /\ p = SubSeq(b, 1, Len(p))

\* C14 (as claimed): when the write of the state file fails inside
\* set_current_exercise_ind, set_current_exercise_by_name, set_pending or
\* done_current_exercise, the operation returns the I/O error, the cursor, the
\* done flags and n_done keep the values the mutation gave them, and the state
\* file keeps its previous content.
C14_NoRollBackAsClaimed ==
    [][WriteFails => (result' = "WriteFailed" /\ MutationKept /\ file' = file)]_vars

\* C14 (amended): the same, the state file keeping its previous content or
\* being left with a proper prefix of the bytes the write intended.
C14_NoRollBack ==
    [][WriteFails =>
          /\ result' = "WriteFailed"
          /\ MutationKept
          /\ \/ file' = file
             \/ /\ file'.exists
                /\ IsProperPrefix(file'.bytes,
                                  FileBuf(names, current_exercise_ind', done'))]_vars

\* C14's case: the write of a regression found by the verification pass has
\* failed part way: the failing exercise is current and pending in memory and
\* the state file holds the beginning of the intended bytes.
C14_Witness ==
    /\ Returned
    /\ op = "done_current_exercise"
    /\ result = "WriteFailed"
    /\ runs # <<>>
    /\ ~done[current_exercise_ind]
    /\ n_done = Len_ - 1
    /\ file.exists
    /\ file.bytes # <<>>
    /\ IsProperPrefix(file.bytes, FileBuf(names, current_exercise_ind, done))

\* The number of lines of s: one more than its newlines.
NumLines(s) == Cardinality(Newlines(s)) + 1

\* The position of the k-th newline of s; 0 for k = 0 and one past the end of
\* s when s has fewer than k newlines.
NthNewline(s, k) ==
    IF k = 0 THEN 0
    ELSE IF k > Cardinality(Newlines(s)) THEN Len(s) + 1
    ELSE CHOOSE i \in Newlines(s) : Cardinality({j \in Newlines(s) : j < i}) = k - 1

\* The k-th line of s: the bytes between its (k-1)-th and k-th newlines.
Line(s, k) == SubSeq(s, NthNewline(s, k - 1) + 1, NthNewline(s, k) - 1)

\* The names on lines 3.. of s before its first empty line.
NamesListedDone(s) ==
    {Line(s, k) : k \in {m \in 3 .. NumLines(s) : \A j \in 3 .. m : Line(s, j) # <<>>}}

\* C15: a machine constructed from a state file of at least two lines has
\* marked done exactly the exercises whose names appear on lines 3.. before the
\* first empty line (names after an empty line, names of no exercise and the
\* content of line 2 have no effect), and its cursor is the index of the
\* exercise named on line 1, or 0 if no exercise bears that name.
C15_Reconcile ==
    (ConstructedFromFile /\ NumLines(file.bytes) >= 2) =>
        /\ \A i \in Indices : done[i] <=> names[i] \in NamesListedDone(file.bytes)
        /\ current_exercise_ind = LastNamed(Line(file.bytes, 1))

\* C15's case: the machine over [a, ab] constructed from a file whose line 1
\* names ab, whose line 2 is not empty, whose line 3 lists ab and which lists a
\* after an empty line: the cursor is on ab and ab alone is done.
C15_Witness ==
    /\ ConstructedFromFile
    /\ file.bytes = <<97, 98, NL, 97, NL, 97, 98, NL, NL, 97>>
    /\ names = (0 :> <<97>>) @@ (1 :> <<97, 98>>)
    /\ current_exercise_ind = 1
    /\ done = (0 :> FALSE) @@ (1 :> TRUE)

\* The runs of the pass so far are those of exercises 0, 1, 2, ... in this
\* order, each once, and every run but the last succeeded; a run that did not
\* succeed has ended the pass.
RunsInOrder ==
    /\ Len(runs) <= Len_
    /\ \A j \in 1 .. Len(runs) :
           /\ runs[j].ind = j - 1
           /\ j < Len(runs) => runs[j].outcome = "success"
    /\ (runs # <<>> /\ LastRun.outcome # "success") => pc = "idle"

\* A step runs at most one exercise, inside the pass, after the runs before it.
OneRunAtATime ==
    runs' # runs =>
        \/ runs' = <<>>
        \/ /\ pc = "verify"
           /\ Len(runs') = Len(runs) + 1
           /\ SubSeq(runs', 1, Len(runs)) = runs

\* C16: within one verification pass the exercises are run one at a time in
\* registry order from index 0; exercise i is run only after exercises 0..i-1
\* have each been run and succeeded in that pass, no exercise is run more than
\* once per pass, and no exercise after the first failing one is run.
C16_VerificationOrder == []RunsInOrder /\ [][OneRunAtATime]_vars

\* C16's case: a pass over several exercises has run them all, the last one
\* failing after the others succeeded.
C16_Witness ==
    /\ Returned
    /\ op = "done_current_exercise"
    /\ Len_ >= 2
    /\ Len(runs) = Len_
    /\ LastRun.outcome = "failure"
    /\ runs[1].outcome = "success"

\* The step is the run of exercise i failing in the verification pass, the
\* runs before it in the pass having succeeded.
FirstFailureOf(i) ==
    /\ op' = "done_current_exercise"
    /\ pc = "verify"
    /\ i = exercise_ind
    /\ runs' = Append(runs, [ind |-> i, outcome |-> "failure"])
    /\ \A j \in 1 .. Len(runs) : runs[j].outcome = "success"

\* A step other than a construction changes a flag from pending to done only
\* for the current exercise in a call of done_current_exercise, and from done to
\* pending only for the exercise set_pending targets or the first exercise to
\* fail in a verification pass.
PermittedFlagChange ==
    op' # "new" =>
        \A i \in Indices :
            /\ (~done[i] /\ done'[i]) =>
                   /\ op' = "done_current_exercise"
                   /\ pc = "idle"
                   /\ i = current_exercise_ind
            /\ (done[i] /\ ~done'[i]) =>
                   \/ op' = "set_pending" /\ i = arg'
                   \/ FirstFailureOf(i)

\* C17: after construction, an exercise's done flag changes from pending to
\* done only for the exercise that is current when done_current_exercise is
\* called, and from done to pending only for the exercise targeted by
\* set_pending or for the first exercise that fails in a verification pass; no
\* other operation or step changes any done flag.
C17_FlagTransitions == [][PermittedFlagChange]_vars

\* C17's case: a call of done_current_exercise has left its exercise done and
\* its verification pass has flipped another exercise, the first to fail, back
\* to pending.
C17_Witness ==
    /\ Returned
    /\ op = "done_current_exercise"
    /\ runs # <<>>
    /\ LastRun.outcome = "failure"
    /\ LastRun.ind # arg
    /\ done[arg]
    /\ ~done[LastRun.ind]

\* C18: whenever done_current_exercise returns Pending, by advancing or by
\* detecting a regression, the exercise at the new cursor is pending.
C18_PendingAtCursor ==
    (Returned /\ op = "done_current_exercise" /\ result = "Pending")
        => ~done[current_exercise_ind]

\* C18's case: called on a later exercise of a registry of several,
\* done_current_exercise has found the first exercise failing in the
\* verification pass and returned Pending with the cursor on it.
C18_Witness ==
    /\ Returned
    /\ op = "done_current_exercise"
    /\ result = "Pending"
    /\ runs # <<>>
    /\ arg >= 1
    /\ current_exercise_ind = 0
    /\ ~done[0]

\* The exercises still pending.
PendingSet == Indices \ DoneSet

\* The calls of done_current_exercise still to make before one returns AllDone:
\* one for each pending exercise other than the current one, and one for the
\* current exercise.
CallsToGo == Cardinality(PendingSet \ {current_exercise_ind}) + 1

\* done_current_exercise has returned AllDone.
AllDoneReturned == Returned /\ op = "done_current_exercise" /\ result = "AllDone"

\* A call of done_current_exercise, succeeding in its writes, that has a single
\* call to go enters the verification pass; any other returns Pending with one
\* call fewer to go.  A step of a pass in which nothing fails goes on with the
\* pass or returns AllDone.
CallsToGoDecrease ==
    /\ (pc = "idle" /\ ProgressNext) =>
           IF CallsToGo = 1
           THEN pc' = "verify"
           ELSE result' = "Pending" /\ CallsToGo' = CallsToGo - 1
    /\ (pc = "verify" /\ ProgressNext) =>
           \/ pc' = "verify" /\ exercise_ind' = exercise_ind + 1
           \/ AllDoneReturned'

\* C19: from any reachable state, if the caller keeps calling
\* done_current_exercise and calls nothing else, and every write and every run
\* succeeds, then a call returns AllDone, after at most (number of pending
\* exercises + 1) calls: the calls to go never exceed that number, each call
\* takes one off or enters the pass, and AllDone is returned again and again.
C19_Progress ==
    /\ [](CallsToGo <= Cardinality(PendingSet) + 1)
    /\ [][CallsToGoDecrease]_vars
    /\ <>[][ProgressNext]_vars => []<>AllDoneReturned

\* C19's case: over a registry of several exercises a call has returned AllDone
\* while the state file, written by the advancing call before it, still names
\* the exercise of this call as current and pending.
C19_Witness ==
    /\ AllDoneReturned
    /\ Len_ >= 2
    /\ file.exists
    /\ Line(file.bytes, 1) = names[arg]
    /\ names[arg] \notin NamesListedDone(file.bytes)
    /\ Cardinality(NamesListedDone(file.bytes)) >= 1

\* The last operation's write of the state file was cut short: the file holds a
\* proper prefix of the bytes the write intended, those of the state in memory.
WriteCutShort ==
    /\ wrote = "failed"
    /\ file.exists
    /\ IsProperPrefix(file.bytes, FileBuf(names, current_exercise_ind, done))

\* C20 (as claimed): if a write is cut short so that the state file holds only
\* a prefix (of any length, zero included) of the bytes the write intended, the
\* next construction over the same registry marks as done only exercises that
\* were done in memory when that write was issued.  Stated for the registries
\* whose names are unique, the only ones whose state file tells the exercises
\* apart.
C20_InterruptedWrite ==
    [][(UniqueNonEmptyNames /\ WriteCutShort /\ op' = "new")
           => \A i \in Indices : done'[i] => done[i]]_vars

====
